---------------------------- MODULE Spec2Model ----------------------------
(***************************************************************************)
(* Inverted index of final_task.py: build_inverted_index, the             *)
(* InvertedIndex class (query, dump, load) and the query command's        *)
(* callbacks.                                                              *)
(*                                                                         *)
(* Python values are tagged records [t, v]:                                *)
(*   str  : v is the sequence of its characters                            *)
(*   int  : v is the integer                                               *)
(*   list : v is the sequence of its elements                              *)
(*   dict : v is the sequence of its <<key, value>> items in insertion     *)
(*          order (the iteration order of a Python dict), keys distinct    *)
(*   None : v is <<>>                                                      *)
(***************************************************************************)
EXTENDS Integers, Sequences, FiniteSets, TLC

VARIABLES
    documents,      \* build_inverted_index: the documents argument (Dict[int, str])
    pc,             \* position of the running function
    doc_pos,        \* build_inverted_index: items of documents consumed by the outer for
    cleaned_text,   \* build_inverted_index: tokens of the current document
    word_pos,       \* build_inverted_index: tokens consumed by the inner for
    words_ids,      \* build_inverted_index: the local dict being filled
    index,          \* words_ids of the InvertedIndex build_inverted_index returned
    loaded,         \* words_ids of the InvertedIndex that InvertedIndex.load returned
    file,           \* the index file: whether it exists, and its text as JSON tokens
    words,          \* argument of the last call (the query terms, or args.query)
    result,         \* value the last call returned
    stdout,         \* values printed so far, one per print call
    raised,         \* exception the last call raised ("" when it returned)
    op              \* the last call: its name and the object it was called on

vars == <<documents, pc, doc_pos, cleaned_text, word_pos, words_ids, index,
          loaded, file, words, result, stdout, raised, op>>

callVars == <<loaded, file, words, result, stdout, raised, op>>

loopVars == <<documents, doc_pos, cleaned_text, word_pos, words_ids>>

---------------------------------------------------------------------------
(* Bounds *)

MaxTextLen == 3

Alphabet == {"a", "A", " "}

DocIds == {1, 12}

---------------------------------------------------------------------------
(* Python values *)

PyNone == [t |-> "None", v |-> <<>>]

PyStr(s) == [t |-> "str", v |-> s]

PyInt(n) == [t |-> "int", v |-> n]

PyList(xs) == [t |-> "list", v |-> xs]

PyDict(items) == [t |-> "dict", v |-> items]

\* key in d, for a str key and a dict d
DictHas(d, key) == \E i \in 1..Len(d.v) : d.v[i][1].v = key.v

\* d[key], for a key that is in d
DictGet(d, key) == d.v[CHOOSE i \in 1..Len(d.v) : d.v[i][1].v = key.v][2]

\* d[key] = val: replaces the value in place, or inserts the key last
DictSet(d, key, val) ==
    IF DictHas(d, key)
    THEN PyDict([i \in 1..Len(d.v) |->
                    IF d.v[i][1].v = key.v THEN <<d.v[i][1], val>> ELSE d.v[i]])
    ELSE PyDict(Append(d.v, <<key, val>>))

\* a name not bound to any object
NoObject == [t |-> "absent", v |-> <<>>]

NoFile == [exists |-> FALSE, text |-> <<>>]

NoCall == [name |-> "", self |-> ""]

---------------------------------------------------------------------------
(* Tokenizer: text.lower().split() *)

Whitespace == {" ", "\t", "\n"}

LowerChar(c) ==
    CASE c = "A" -> "a"
      [] c = "M" -> "m"
      [] c = "S" -> "s"
      [] c = "W" -> "w"
      [] OTHER -> c

Lower(s) == [i \in 1..Len(s) |-> LowerChar(s[i])]

\* str.split() without arguments: the maximal runs of non-whitespace
RECURSIVE SplitFrom(_, _, _, _)
SplitFrom(s, i, cur, acc) ==
    IF i > Len(s)
    THEN IF cur = <<>> THEN acc ELSE Append(acc, cur)
    ELSE IF s[i] \in Whitespace
         THEN SplitFrom(s, i + 1, <<>>, IF cur = <<>> THEN acc ELSE Append(acc, cur))
         ELSE SplitFrom(s, i + 1, Append(cur, s[i]), acc)

Split(s) == SplitFrom(s, 1, <<>>, <<>>)

---------------------------------------------------------------------------
(* build_inverted_index, statement by statement *)

Texts == UNION {[1..n -> Alphabet] : n \in 0..MaxTextLen}

IdOrders ==
    UNION {{o \in [1..n -> DocIds] : \A i, j \in 1..n : o[i] = o[j] => i = j}
           : n \in 0..Cardinality(DocIds)}

\* a Dict[int, str] as load_documents returns it: items in insertion order
DocumentsOf(o, txt) == [k \in 1..Len(o) |-> <<o[k], txt[k]>>]

\* line 99-100: if word not in words_ids: words_ids[word] = []
CreateList(d, word) ==
    IF ~DictHas(d, word) THEN DictSet(d, word, PyList(<<>>)) ELSE d

\* mutant: a document id is recorded once per document, not once per occurrence
AppendIdOncePerDocument(d, word, doc_id) ==
    IF \E i \in 1..Len(DictGet(d, word).v) : DictGet(d, word).v[i].v = doc_id.v
    THEN d
    ELSE DictSet(d, word, PyList(Append(DictGet(d, word).v, doc_id)))

\* mutant: a running counter is recorded in place of the document id
AppendIdCounter(d, word, doc_id) ==
    DictSet(d, word, PyList(Append(DictGet(d, word).v,
                                   PyInt(Len(DictGet(d, word).v) + 1))))

\* mutant: the append sits in an else branch, so a new key keeps its empty list
AppendIdElseBranch(d, word, doc_id) ==
    IF DictGet(d, word).v = <<>>
    THEN d
    ELSE DictSet(d, word, PyList(Append(DictGet(d, word).v, doc_id)))

\* line 101: words_ids[word].append(doc_id)
AppendId(d, word, doc_id) ==
    DictSet(d, word, PyList(Append(DictGet(d, word).v, doc_id)))

InitBuild ==
    /\ \E o \in IdOrders : \E txt \in [1..Len(o) -> Texts] :
           documents = DocumentsOf(o, txt)
    /\ pc = "L95"
    /\ doc_pos = 0
    /\ cleaned_text = <<>>
    /\ word_pos = 0
    /\ words_ids = NoObject
    /\ index = NoObject
    /\ loaded = NoObject
    /\ file = NoFile
    /\ words = <<>>
    /\ result = PyNone
    /\ stdout = <<>>
    /\ raised = ""
    /\ op = NoCall

\* words_ids = {}
BuildInitDict ==
    /\ pc = "L95"
    /\ words_ids' = PyDict(<<>>)
    /\ pc' = "L96"
    /\ UNCHANGED <<documents, doc_pos, cleaned_text, word_pos, index, callVars>>

\* for doc_id, text in documents.items(): cleaned_text = text.lower().split()
BuildNextDocument ==
    /\ pc = "L96"
    /\ IF doc_pos < Len(documents)
       THEN /\ doc_pos' = doc_pos + 1
            /\ cleaned_text' = Split(Lower(documents[doc_pos + 1][2]))
            /\ word_pos' = 0
            /\ pc' = "L98"
       ELSE /\ pc' = "L102"
            /\ UNCHANGED <<doc_pos, cleaned_text, word_pos>>
    /\ UNCHANGED <<documents, words_ids, index, callVars>>

\* for word in cleaned_text:
BuildNextWord ==
    /\ pc = "L98"
    /\ IF word_pos < Len(cleaned_text)
       THEN /\ word_pos' = word_pos + 1
            /\ pc' = "L99"
       ELSE /\ pc' = "L96"
            /\ UNCHANGED word_pos
    /\ UNCHANGED <<documents, doc_pos, cleaned_text, words_ids, index, callVars>>

\* if word not in words_ids: words_ids[word] = []
BuildCreateList ==
    /\ pc = "L99"
    /\ LET word == PyStr(cleaned_text[word_pos])
       IN  words_ids' = CreateList(words_ids, word)
    /\ pc' = "L101"
    /\ UNCHANGED <<documents, doc_pos, cleaned_text, word_pos, index, callVars>>

\* words_ids[word].append(doc_id)
BuildAppend ==
    /\ pc = "L101"
    /\ LET word == PyStr(cleaned_text[word_pos])
           doc_id == PyInt(documents[doc_pos][1])
       IN  words_ids' = AppendId(words_ids, word, doc_id)
    /\ pc' = "L98"
    /\ UNCHANGED <<documents, doc_pos, cleaned_text, word_pos, index, callVars>>

\* return InvertedIndex(words_ids)
BuildReturn ==
    /\ pc = "L102"
    /\ index' = words_ids
    /\ pc' = "built"
    /\ UNCHANGED <<loopVars, callVars>>

NextBuild ==
    \/ BuildInitDict
    \/ BuildNextDocument
    \/ BuildNextWord
    \/ BuildCreateList
    \/ BuildAppend
    \/ BuildReturn

SpecBuild == InitBuild /\ [][NextBuild]_vars

\* build_inverted_index as one call: both loops run to completion
RECURSIVE IndexWords(_, _, _, _)
IndexWords(d, toks, i, doc_id) ==
    IF i > Len(toks) THEN d
    ELSE IndexWords(AppendId(CreateList(d, PyStr(toks[i])), PyStr(toks[i]), doc_id),
                    toks, i + 1, doc_id)

RECURSIVE IndexDocuments(_, _, _)
IndexDocuments(d, docs, k) ==
    IF k > Len(docs) THEN d
    ELSE IndexDocuments(IndexWords(d, Split(Lower(docs[k][2])), 1, PyInt(docs[k][1])),
                        docs, k + 1)

build_inverted_index(docs) == IndexDocuments(PyDict(<<>>), docs, 1)

---------------------------------------------------------------------------
(* Vocabulary of the claims about build_inverted_index *)

Range(f) == {f[i] : i \in DOMAIN f}

Keys(d) == {d.v[i][1].v : i \in 1..Len(d.v)}

KeysDistinct(d) == \A i, j \in 1..Len(d.v) : d.v[i][1].v = d.v[j][1].v => i = j

\* the posting list stored under term, as a sequence of integers
Posting(d, term) == LET l == DictGet(d, PyStr(term)).v IN [i \in 1..Len(l) |-> l[i].v]

Tokens(text) == Split(Lower(text))

Occurrences(term, text) ==
    Cardinality({i \in 1..Len(Tokens(text)) : Tokens(text)[i] = term})

\* doc ids of the first k documents, each once per occurrence of term
RECURSIVE ExpectedPosting(_, _, _)
ExpectedPosting(docs, k, term) ==
    IF k = 0 THEN <<>>
    ELSE ExpectedPosting(docs, k - 1, term)
         \o [i \in 1..Occurrences(term, docs[k][2]) |-> docs[k][1]]

TermsOf(docs, k) == UNION {Range(Tokens(docs[j][2])) : j \in 1..k}

MilkDocuments ==
    << <<1, <<"m","i","l","k"," ","w","a","t","e","r">> >>,
       <<2, <<"m","i","l","k"," ","s","u","g","a","r"," ","w","a","t","e","r">> >> >>

Milk == <<"m","i","l","k">>

Water == <<"w","a","t","e","r">>

Sugar == <<"s","u","g","a","r">>

---------------------------------------------------------------------------
(* Claims about build_inverted_index (SpecBuild) *)

ListsOfInts(d) ==
    \A i \in 1..Len(d.v) :
        /\ d.v[i][1].t = "str"
        /\ d.v[i][2].t = "list"
        /\ \A j \in 1..Len(d.v[i][2].v) : d.v[i][2].v[j].t = "int"

\* C2: the returned index has exactly the terms of the documents as keys, and
\* under each term the document ids in document order, once per occurrence of
\* the term among the lowercased whitespace-split tokens; the milk/water/sugar
\* documents give milk -> [1,2], water -> [1,2], sugar -> [2] and no other key.
C2_BuildPostings ==
    pc = "built" =>
        /\ index.t = "dict"
        /\ ListsOfInts(index)
        /\ KeysDistinct(index)
        /\ Keys(index) = TermsOf(documents, Len(documents))
        /\ \A term \in Keys(index) :
               Posting(index, term) = ExpectedPosting(documents, Len(documents), term)
        /\ LET ix == build_inverted_index(MilkDocuments)
           IN  /\ Keys(ix) = {Milk, Water, Sugar}
               /\ Posting(ix, Milk) = <<1, 2>>
               /\ Posting(ix, Water) = <<1, 2>>
               /\ Posting(ix, Sugar) = <<2>>

\* C2 witness: document 12 holds the term twice and comes before document 1
C2_Witness ==
    /\ pc = "built"
    /\ Len(documents) = 2
    /\ <<"a">> \in Keys(index)
    /\ Posting(index, <<"a">>) = <<12, 12, 1>>

PostedIds(d) ==
    UNION {{d.v[i][2].v[j].v : j \in 1..Len(d.v[i][2].v)} : i \in 1..Len(d.v)}

DocumentIds == {documents[k][1] : k \in 1..Len(documents)}

\* C9: at every point of the build and in the returned index, every document
\* id in a posting list is a key of the documents mapping.
C9_IdsFromDocuments ==
    /\ words_ids.t = "dict" => PostedIds(words_ids) \subseteq DocumentIds
    /\ index.t = "dict" => PostedIds(index) \subseteq DocumentIds

\* C9 witness: inside the loop, with a posting made and an id of DocIds that
\* is not in the collection
C9_Witness ==
    /\ pc = "L98"
    /\ words_ids.t = "dict"
    /\ PostedIds(words_ids) # {}
    /\ DocumentIds # DocIds

NonEmptyLists(d) == \A i \in 1..Len(d.v) : d.v[i][2].v # <<>>

\* tokens whose two statements (create, append) have both run
TokensDone ==
    LET n == IF pc = "L99" \/ pc = "L101" THEN word_pos - 1 ELSE word_pos
    IN  TermsOf(documents, doc_pos - 1) \cup {cleaned_text[i] : i \in 1..n}

\* C10 as stated: in every state of the build every key has a non-empty list.
C10_Original ==
    /\ words_ids.t = "dict" => NonEmptyLists(words_ids)
    /\ index.t = "dict" => NonEmptyLists(index)

\* C10 amended: every key has a non-empty posting list in the returned index
\* and at every point of the build other than between the creation of a key
\* (line 100) and the append of the same iteration (line 101); the keys are
\* exactly the terms of the tokens processed so far, so a text without tokens
\* adds no key and an empty documents mapping gives an empty index.
C10_KeysHavePostings ==
    /\ (words_ids.t = "dict" /\ pc # "L101") =>
           /\ NonEmptyLists(words_ids)
           /\ Keys(words_ids) = TokensDone
    /\ (words_ids.t = "dict" /\ pc = "L101") =>
           /\ Keys(words_ids) = TokensDone \cup {cleaned_text[word_pos]}
           /\ \A i \in 1..Len(words_ids.v) :
                  words_ids.v[i][2].v = <<>> => words_ids.v[i][1].v = cleaned_text[word_pos]
    /\ pc = "built" =>
           /\ NonEmptyLists(index)
           /\ Keys(index) = TermsOf(documents, Len(documents))
           /\ documents = <<>> => index.v = <<>>

\* C10 witness: an index returned for a whitespace-only text and a text with a term
C10_Witness ==
    /\ pc = "built"
    /\ Len(documents) = 2
    /\ documents[1][2] = <<" ", " ">>
    /\ Keys(index) = {<<"a">>}

---------------------------------------------------------------------------
(* json.dump and json.load, on the token sequence of the JSON text *)

Tok(k, s) == [k |-> k, s |-> s]

DigitChars == <<"0", "1", "2", "3", "4", "5", "6", "7", "8", "9">>

\* the decimal text json writes for an int
RECURSIVE IntToDigits(_)
IntToDigits(n) ==
    IF n < 0 THEN <<"-">> \o IntToDigits(0 - n)
    ELSE IF n < 10 THEN <<DigitChars[n + 1]>>
    ELSE IntToDigits(n \div 10) \o <<DigitChars[(n % 10) + 1]>>

DigitValue(c) == CHOOSE n \in 0..9 : DigitChars[n + 1] = c

\* the int json reads from a decimal text
RECURSIVE DigitsToNat(_, _, _)
DigitsToNat(ds, i, acc) ==
    IF i > Len(ds) THEN acc
    ELSE DigitsToNat(ds, i + 1, 10 * acc + DigitValue(ds[i]))

DigitsToInt(ds) ==
    IF ds[1] = "-" THEN 0 - DigitsToNat(ds, 2, 0) ELSE DigitsToNat(ds, 1, 0)

\* json.dump: a str key is written as is, an int key as its decimal text
KeyText(key) == IF key.t = "int" THEN IntToDigits(key.v) ELSE key.v

RECURSIVE Encode(_)
RECURSIVE EncodeElements(_, _)
RECURSIVE EncodeMembers(_, _)
Encode(x) ==
    CASE x.t = "str"  -> <<Tok("string", x.v)>>
      [] x.t = "int"  -> <<Tok("number", IntToDigits(x.v))>>
      [] x.t = "None" -> <<Tok("null", <<>>)>>
      [] x.t = "list" -> <<Tok("[", <<>>)>> \o EncodeElements(x.v, 1) \o <<Tok("]", <<>>)>>
      [] x.t = "dict" -> <<Tok("{", <<>>)>> \o EncodeMembers(x.v, 1) \o <<Tok("}", <<>>)>>

EncodeElements(xs, i) ==
    IF i > Len(xs) THEN <<>>
    ELSE (IF i > 1 THEN <<Tok(",", <<>>)>> ELSE <<>>)
         \o Encode(xs[i]) \o EncodeElements(xs, i + 1)

EncodeMembers(items, i) ==
    IF i > Len(items) THEN <<>>
    ELSE (IF i > 1 THEN <<Tok(",", <<>>)>> ELSE <<>>)
         \o <<Tok("string", KeyText(items[i][1])), Tok(":", <<>>)>>
         \o Encode(items[i][2]) \o EncodeMembers(items, i + 1)

\* json.dump(self.words_ids, f)
JsonDump(x) == Encode(x)

ParseError == [ok |-> FALSE, val |-> PyNone, next |-> 0]

Parsed(val, next) == [ok |-> TRUE, val |-> val, next |-> next]

KindAt(toks, i) == IF i <= Len(toks) THEN toks[i].k ELSE "EOF"

\* the JSON decoder: a value starting at token i, and the token after it
RECURSIVE ParseValue(_, _)
RECURSIVE ParseElements(_, _, _)
RECURSIVE ParseMembers(_, _, _)
ParseValue(toks, i) ==
    CASE KindAt(toks, i) = "string" -> Parsed(PyStr(toks[i].s), i + 1)
      [] KindAt(toks, i) = "number" -> Parsed(PyInt(DigitsToInt(toks[i].s)), i + 1)
      [] KindAt(toks, i) = "null"   -> Parsed(PyNone, i + 1)
      [] KindAt(toks, i) = "[" ->
            IF KindAt(toks, i + 1) = "]"
            THEN Parsed(PyList(<<>>), i + 2)
            ELSE ParseElements(toks, i + 1, <<>>)
      [] KindAt(toks, i) = "{" ->
            IF KindAt(toks, i + 1) = "}"
            THEN Parsed(PyDict(<<>>), i + 2)
            ELSE ParseMembers(toks, i + 1, PyDict(<<>>))
      [] OTHER -> ParseError

ParseElements(toks, i, acc) ==
    LET r == ParseValue(toks, i)
    IN  IF ~r.ok THEN ParseError
        ELSE CASE KindAt(toks, r.next) = "," ->
                      ParseElements(toks, r.next + 1, Append(acc, r.val))
               [] KindAt(toks, r.next) = "]" ->
                      Parsed(PyList(Append(acc, r.val)), r.next + 1)
               [] OTHER -> ParseError

\* a repeated key keeps its first position and takes the last value
ParseMembers(toks, i, acc) ==
    IF KindAt(toks, i) # "string" \/ KindAt(toks, i + 1) # ":" THEN ParseError
    ELSE LET r == ParseValue(toks, i + 2)
         IN  IF ~r.ok THEN ParseError
             ELSE CASE KindAt(toks, r.next) = "," ->
                           ParseMembers(toks, r.next + 1,
                                        DictSet(acc, PyStr(toks[i].s), r.val))
                    [] KindAt(toks, r.next) = "}" ->
                           Parsed(DictSet(acc, PyStr(toks[i].s), r.val), r.next + 1)
                    [] OTHER -> ParseError

\* json.load(f): one value, then the end of the text
JsonLoad(toks) ==
    LET r == ParseValue(toks, 1)
    IN  IF r.ok /\ r.next = Len(toks) + 1 THEN r ELSE ParseError

---------------------------------------------------------------------------
(* InvertedIndex.query, dump and load on an index of posting lists *)

MaxQueryLen == 2

QueryTerms == {<<"a">>, <<"A">>, <<"a", "a">>}

Unhashable == {"list", "dict"}

Returned(value, d) == [raised |-> "", value |-> value, words_ids |-> d]

Raised(exc, d) == [raised |-> exc, value |-> PyNone, words_ids |-> d]

\* lines 49-52, for self.words_ids a dict of lists: `word in self.words_ids`
\* hashes word, which raises TypeError for a list or a dict
RECURSIVE QueryLoop(_, _, _, _)
QueryLoop(d, ws, i, doc_indexes) ==
    IF i > Len(ws) THEN Returned(PyList(doc_indexes), d)
    ELSE IF ws[i].t \in Unhashable THEN Raised("TypeError", d)
    ELSE IF ws[i].t = "str" /\ DictHas(d, ws[i])
         THEN QueryLoop(d, ws, i + 1, doc_indexes \o DictGet(d, ws[i]).v)
         ELSE QueryLoop(d, ws, i + 1, doc_indexes)

\* mutant: a queried term is looked up once, however often it is given
RECURSIVE QueryLoopOnce(_, _, _, _)
QueryLoopOnce(d, ws, i, doc_indexes) ==
    IF i > Len(ws) THEN Returned(PyList(doc_indexes), d)
    ELSE IF ws[i].t = "str" /\ DictHas(d, ws[i])
            /\ ~\E j \in 1..(i - 1) : ws[j].v = ws[i].v
         THEN QueryLoopOnce(d, ws, i + 1, doc_indexes \o DictGet(d, ws[i]).v)
         ELSE QueryLoopOnce(d, ws, i + 1, doc_indexes)

queryDeduplicated(d, ws) == QueryLoopOnce(d, ws, 1, <<>>)

\* mutant: the lookup inserts an empty list for a term that is not a key
RECURSIVE InsertMissing(_, _, _)
InsertMissing(d, ws, i) ==
    IF i > Len(ws) THEN d
    ELSE InsertMissing(IF ws[i].t = "str" THEN CreateList(d, ws[i]) ELSE d, ws, i + 1)

queryInserting(d, ws) ==
    [QueryLoop(d, ws, 1, <<>>) EXCEPT !.words_ids = InsertMissing(d, ws, 1)]

\* InvertedIndex.query(self, words) with self.words_ids = d: what it returns or
\* raises, and self.words_ids after the call
query(d, ws) == QueryLoop(d, ws, 1, <<>>)

QueryArgs ==
    UNION {[1..n -> {PyStr(term) : term \in QueryTerms}] : n \in 0..MaxQueryLen}

Object(self) == IF self = "index" THEN index ELSE loaded

InitStore ==
    /\ \E o \in IdOrders : \E txt \in [1..Len(o) -> Texts] :
           index = build_inverted_index(DocumentsOf(o, txt))
    /\ pc = "built"
    /\ documents = <<>>
    /\ doc_pos = 0
    /\ cleaned_text = <<>>
    /\ word_pos = 0
    /\ words_ids = NoObject
    /\ loaded = NoObject
    /\ file = NoFile
    /\ words = <<>>
    /\ result = PyNone
    /\ stdout = <<>>
    /\ raised = ""
    /\ op = NoCall

\* relevant_docs = inverted_index.query(words)
Query ==
    \E self \in {"index", "loaded"} : \E ws \in QueryArgs :
        /\ Object(self).t # "absent"
        /\ LET r == query(Object(self), ws)
           IN  /\ result' = r.value
               /\ raised' = r.raised
               /\ index' = IF self = "index" THEN r.words_ids ELSE index
               /\ loaded' = IF self = "loaded" THEN r.words_ids ELSE loaded
        /\ words' = ws
        /\ op' = [name |-> "query", self |-> self]
        /\ UNCHANGED <<pc, loopVars, file, stdout>>

RECURSIVE FirstOccurrences(_, _, _)
FirstOccurrences(xs, i, acc) ==
    IF i > Len(xs) THEN acc
    ELSE FirstOccurrences(xs, i + 1,
                          IF \E j \in 1..Len(acc) : acc[j] = xs[i]
                          THEN acc ELSE Append(acc, xs[i]))

\* mutant: each posting list is written without its repeated ids
DumpTextDeduplicated(d) ==
    JsonDump(PyDict([i \in 1..Len(d.v) |->
                        <<d.v[i][1], PyList(FirstOccurrences(d.v[i][2].v, 1, <<>>))>>]))

\* with open(filepath, 'w') as f: json.dump(self.words_ids, f)
DumpText(d) == JsonDump(d)

Dump ==
    \E self \in {"index", "loaded"} :
        /\ Object(self).t # "absent"
        /\ file' = [exists |-> TRUE, text |-> DumpText(Object(self))]
        /\ words' = <<>>
        /\ result' = PyNone
        /\ raised' = ""
        /\ op' = [name |-> "dump", self |-> self]
        /\ UNCHANGED <<pc, loopVars, index, loaded, stdout>>

\* with open(filepath, 'r') as f: words_ids = json.load(f); return cls(words_ids)
LoadFile(f) ==
    IF ~f.exists THEN Raised("FileNotFoundError", PyNone)
    ELSE IF ~JsonLoad(f.text).ok THEN Raised("JSONDecodeError", PyNone)
    ELSE Returned(PyNone, JsonLoad(f.text).val)

Load ==
    /\ LET r == LoadFile(file)
       IN  /\ raised' = r.raised
           /\ loaded' = IF r.raised = "" THEN r.words_ids ELSE loaded
    /\ words' = <<>>
    /\ result' = PyNone
    /\ op' = [name |-> "load", self |-> "InvertedIndex"]
    /\ UNCHANGED <<pc, loopVars, index, file, stdout>>

NextStore ==
    \/ Query
    \/ Dump
    \/ Load

SpecStore == InitStore /\ [][NextStore]_vars

---------------------------------------------------------------------------
(* Claims about query, dump and load (SpecStore) *)

\* what a term contributes to a query: its stored list, or nothing
Contribution(d, term) ==
    IF term \in Keys(d) THEN DictGet(d, PyStr(term)).v ELSE <<>>

RECURSIVE Concatenation(_, _, _)
Concatenation(d, ws, n) ==
    IF n = 0 THEN <<>>
    ELSE Concatenation(d, ws, n - 1) \o Contribution(d, ws[n].v)

\* C1: query returns, without raising, the concatenation in term order of the
\* stored posting list of each term that is a key, nothing for the others,
\* with no deduplication: query([t, t]) is twice as long as t's posting list.
C1_QueryConcatenates ==
    op.name = "query" =>
        /\ raised = ""
        /\ result = PyList(Concatenation(Object(op.self), words, Len(words)))
        /\ (Len(words) = 2 /\ words[1] = words[2]) =>
               Len(result.v) = 2 * Len(Contribution(Object(op.self), words[1].v))

\* C1 witness: a term with postings queried twice
C1_Witness ==
    /\ op.name = "query"
    /\ words = <<PyStr(<<"a">>), PyStr(<<"a">>)>>
    /\ Len(Contribution(Object(op.self), <<"a">>)) = 2
    /\ Len(result.v) = 4

SameMapping(d, e) ==
    /\ Keys(d) = Keys(e)
    /\ KeysDistinct(d)
    /\ ListsOfInts(d)
    /\ \A term \in Keys(e) : Posting(d, term) = Posting(e, term)

\* C3: an index read back by load from the file dump wrote has the key set of
\* the built index and under every key the same posting list in the same
\* order, and it answers every query as the built index does.
C3_RoundTrip ==
    (op.name = "load" /\ raised = "") =>
        /\ loaded.t = "dict"
        /\ SameMapping(loaded, index)
        /\ \A ws \in QueryArgs : query(loaded, ws).value = query(index, ws).value

\* C3 witness: a loaded index of two keys, one list holding an id twice
C3_Witness ==
    /\ op.name = "load"
    /\ raised = ""
    /\ Keys(loaded) = {<<"a">>, <<"a", "a">>}
    /\ Posting(loaded, <<"a">>) = <<12, 12>>
    /\ Posting(loaded, <<"a", "a">>) = <<1>>

LowerWords(ws) == [i \in 1..Len(ws) |-> PyStr(Lower(ws[i].v))]

\* C6: a query of any spelling of a term returns what the query of its
\* lowercase spelling returns.
C6_CaseFolding ==
    op.name = "query" => result = query(Object(op.self), LowerWords(words)).value

\* C8: a query or a dump on a built or loaded index leaves the term -> postings
\* mapping of every index as it was: no key added, no list lengthened or
\* reordered.
C8_WriteOnce ==
    [][op'.name \in {"query", "dump"} => (index' = index /\ loaded' = loaded)]_vars

\* C8 witness: a term that is not a key queried on a loaded index
C8_Witness ==
    /\ op.name = "query"
    /\ op.self = "loaded"
    /\ Keys(loaded) = {<<"a">>}
    /\ words = <<PyStr(<<"a", "a">>), PyStr(<<"a">>)>>
    /\ file.exists

---------------------------------------------------------------------------
(* InvertedIndex.load on index files of any content (SpecLoad) *)

FirstKey(d) == d.v[1][1]

\* texts an index file can hold: what dump wrote, a truncated write, JSON that
\* is no mapping, and mappings with a value that is no list of integers
FileTexts(d) ==
    {JsonDump(d)}
    \cup {SubSeq(JsonDump(d), 1, n) : n \in 0..(Len(JsonDump(d)) - 1)}
    \cup {<<Tok("junk", <<"a">>)>>,
          JsonDump(PyStr(<<"a">>)),
          JsonDump(PyInt(12)),
          JsonDump(PyNone),
          JsonDump(PyList(<<>>)),
          JsonDump(PyList(<<PyInt(1), PyInt(12)>>)),
          JsonDump(PyList(<<d>>))}
    \cup (IF d.v = <<>> THEN {}
          ELSE {JsonDump(DictSet(d, FirstKey(d), PyStr(<<"a">>))),
                JsonDump(DictSet(d, FirstKey(d), PyInt(1))),
                JsonDump(DictSet(d, FirstKey(d), PyNone)),
                JsonDump(DictSet(d, FirstKey(d), d)),
                JsonDump(DictSet(d, FirstKey(d), PyList(<<PyInt(1), PyStr(<<"a">>)>>))),
                JsonDump(DictSet(d, FirstKey(d), PyList(<<PyList(<<PyInt(1)>>)>>)))})

InitLoad ==
    /\ \E o \in IdOrders : \E txt \in [1..Len(o) -> Texts] :
           \/ file = NoFile
           \/ \E text \in FileTexts(build_inverted_index(DocumentsOf(o, txt))) :
                  file = [exists |-> TRUE, text |-> text]
    /\ pc = "main"
    /\ documents = <<>>
    /\ doc_pos = 0
    /\ cleaned_text = <<>>
    /\ word_pos = 0
    /\ words_ids = NoObject
    /\ index = NoObject
    /\ loaded = NoObject
    /\ words = <<>>
    /\ result = PyNone
    /\ stdout = <<>>
    /\ raised = ""
    /\ op = NoCall

NextLoad == Load

SpecLoad == InitLoad /\ [][NextLoad]_vars

\* C4: load raises a decode error, and returns no InvertedIndex, whenever the
\* file content is not a mapping at the top level.
C4_LoadRejectsNonMapping ==
    (op.name = "load" /\ file.exists /\ KindAt(file.text, 1) # "{") =>
        (raised = "JSONDecodeError" /\ loaded.t = "absent")

\* C5: load raises a decode error, and returns no InvertedIndex, whenever the
\* file content is a well-formed mapping with a value that is not a list of
\* integers.
C5_LoadRejectsBadPostings ==
    (/\ op.name = "load"
     /\ file.exists
     /\ JsonLoad(file.text).ok
     /\ JsonLoad(file.text).val.t = "dict"
     /\ ~ListsOfInts(JsonLoad(file.text).val)) =>
        (raised = "JSONDecodeError" /\ loaded.t = "absent")

---------------------------------------------------------------------------
(* The query command: callback_query, and process_query (SpecCli) *)

MaxGroups == 2

MaxQueryFileLen == 3

\* iteration over a text file: its lines, each with its "\n" when it has one
RECURSIVE LinesFrom(_, _, _, _)
LinesFrom(s, i, cur, acc) ==
    IF i > Len(s)
    THEN IF cur = <<>> THEN acc ELSE Append(acc, PyStr(cur))
    ELSE IF s[i] = "\n"
         THEN LinesFrom(s, i + 1, <<>>, Append(acc, PyStr(Append(cur, s[i]))))
         ELSE LinesFrom(s, i + 1, Append(cur, s[i]), acc)

Lines(s) == LinesFrom(s, 1, <<>>, <<>>)

\* str.strip(): without the leading and trailing whitespace
Strip(s) ==
    LET inner == {i \in 1..Len(s) : s[i] \notin Whitespace}
    IN  IF inner = {} THEN <<>>
        ELSE SubSeq(s, CHOOSE i \in inner : \A j \in inner : i <= j,
                       CHOOSE i \in inner : \A j \in inner : j <= i)

\* ','.join(str(value) for value in values)
RECURSIVE JoinValues(_, _)
JoinValues(values, i) ==
    IF i > Len(values) THEN <<>>
    ELSE (IF i > 1 THEN <<",">> ELSE <<>>)
         \o IntToDigits(values[i].v) \o JoinValues(values, i + 1)

Groups ==
    UNION {[1..n -> {PyStr(term) : term \in QueryTerms}] : n \in 1..MaxQueryLen}

QueryFileTexts ==
    UNION {[1..n -> Alphabet \cup {"\n"}] : n \in 0..MaxQueryFileLen}

\* args.query: with -q (action='append', nargs='+') a list of lists of terms,
\* with --query_from_file the opened file, which iterates over its lines
ArgsQuery ==
    {[option |-> "-q", items |-> [i \in 1..Len(g) |-> PyList(g[i])]] :
        g \in UNION {[1..n -> Groups] : n \in 1..MaxGroups}}

ArgsQueryFromFile ==
    {[option |-> "--query_from_file", items |-> Lines(text)] : text \in QueryFileTexts}

InitCli ==
    /\ \E o \in IdOrders : \E txt \in [1..Len(o) -> Texts] :
           file = [exists |-> TRUE,
                   text |-> DumpText(build_inverted_index(DocumentsOf(o, txt)))]
    /\ pc = "main"
    /\ documents = <<>>
    /\ doc_pos = 0
    /\ cleaned_text = <<>>
    /\ word_pos = 0
    /\ words_ids = NoObject
    /\ index = NoObject
    /\ loaded = NoObject
    /\ words = <<>>
    /\ result = PyNone
    /\ stdout = <<>>
    /\ raised = ""
    /\ op = NoCall

\* callback_query(args): load, one query call on args.query, one print
CallbackQuery ==
    /\ pc = "main"
    /\ \E query_arg \in ArgsQuery \cup ArgsQueryFromFile :
        /\ words' = query_arg
        /\ LET l == LoadFile(file)
               r == query(l.words_ids, query_arg.items)
           IN  IF l.raised # ""
               THEN /\ raised' = l.raised
                    /\ UNCHANGED <<loaded, stdout>>
               ELSE /\ loaded' = r.words_ids
                    /\ raised' = r.raised
                    /\ stdout' = IF r.raised = "" THEN Append(stdout, r.value)
                                                  ELSE stdout
    /\ result' = PyNone
    /\ op' = [name |-> "callback_query", self |-> "args"]
    /\ pc' = "exit"
    /\ UNCHANGED <<loopVars, index, file>>

\* lines 148-154: print(query[0]); split a str; print the joined result
RECURSIVE ProcessLoop(_, _, _, _)
ProcessLoop(d, queries, i, out) ==
    IF i > Len(queries) THEN [raised |-> "", stdout |-> out]
    ELSE IF queries[i].v = <<>> THEN [raised |-> "IndexError", stdout |-> out]
    ELSE LET first == IF queries[i].t = "str" THEN PyStr(<<queries[i].v[1]>>)
                                               ELSE queries[i].v[1]
             terms == IF queries[i].t = "str"
                      THEN [j \in 1..Len(Split(Strip(queries[i].v))) |->
                               PyStr(Split(Strip(queries[i].v))[j])]
                      ELSE queries[i].v
             r == query(d, terms)
         IN  IF r.raised # "" THEN [raised |-> r.raised, stdout |-> Append(out, first)]
             ELSE ProcessLoop(d, queries, i + 1,
                              out \o <<first, PyStr(JoinValues(r.value.v, 1))>>)

\* process_query(queries, index)
ProcessQuery ==
    /\ pc = "main"
    /\ \E query_arg \in ArgsQuery \cup ArgsQueryFromFile :
        /\ words' = query_arg
        /\ LET l == LoadFile(file)
               r == ProcessLoop(l.words_ids, query_arg.items, 1, stdout)
           IN  IF l.raised # ""
               THEN /\ raised' = l.raised
                    /\ UNCHANGED <<loaded, stdout>>
               ELSE /\ loaded' = l.words_ids
                    /\ raised' = r.raised
                    /\ stdout' = r.stdout
    /\ result' = PyNone
    /\ op' = [name |-> "process_query", self |-> "args"]
    /\ pc' = "exit"
    /\ UNCHANGED <<loopVars, index, file>>

NextCli ==
    \/ CallbackQuery
    \/ ProcessQuery

SpecCli == InitCli /\ [][NextCli]_vars

\* the terms of a query group: the group itself, or the split line
GroupTerms(q) ==
    IF q.t = "str" THEN [j \in 1..Len(Split(q.v)) |-> PyStr(Split(q.v)[j])] ELSE q.v

\* C7: given at least one query group, the query command does not fail and
\* yields one result list per group, the i-th being query of the i-th group's
\* terms (of the split i-th line for a query file).
C7_QueryCommandPerGroup ==
    (op.name = "callback_query" /\ words.items # <<>>) =>
        /\ raised = ""
        /\ Len(stdout) = Len(words.items)
        /\ \A i \in 1..Len(words.items) :
               stdout[i] = query(loaded, GroupTerms(words.items[i])).value

\* process_query, which the command line does not call, prints per group the
\* first term and then the comma-joined result of the group's query
ProcessQueryPerGroup ==
    op.name = "process_query" =>
        /\ raised = ""
        /\ Len(stdout) = 2 * Len(words.items)
        /\ \A i \in 1..Len(words.items) :
               stdout[2 * i] =
                   PyStr(JoinValues(query(loaded, GroupTerms(words.items[i])).value.v, 1))

=============================================================================
